---- MODULE Spec2Model ----
(***************************************************************************)
(* EnemyClicker: the progression/economy core (Player, Enemy, Perk) and    *)
(* the Game/menu surface that drives it (game loop, shop, pause and main   *)
(* menu, save_game / load_game).                                           *)
(*                                                                         *)
(* Conventions.  Python floats that the code only ever uses on a fixed     *)
(* grid are kept exact: the growth factor and growth rate are counted in   *)
(* tenths, the timers in ticks (each tick adds 0.01), an animation speed   *)
(* is the fraction num/den of a second.  Where double rounding decides a   *)
(* comparison or a truncation, the outcome the doubles give is written     *)
(* down (ShortSums, ShrinkSizes, GrowSizes).                               *)
(***************************************************************************)
EXTENDS Integers, Sequences, FiniteSets, TLC

\* ------------------------------------------------------------------ bounds

\* One behaviour explores a bounded number of qualifying clicks (calls of
\* Enemy.hit), of loaded documents and of program starts.  The budget depends on
\* what the first process finds on disk (see Scenarios).
\* No save.json at the start: a new game, saved, and continued by a later process.
NewGameHits == 5
NewGameLoads == 1
NewGameRuns == 2
\* The document of an earlier game at the start: continue it and shop.
EarlierGameHits == 1
EarlierGameLoads == 1
EarlierGameRuns == 1
\* The document of a long game at the start: continue it and shop.
LateGameHits == 1
LateGameLoads == 1
LateGameRuns == 1
\* A damaged save.json at the start.
DamagedHits == 1
DamagedLoads == 1
DamagedRuns == 2
\* shop_buttons grows by four entries per drawn frame; frames counted up to here.
MaxShopFrames == 2
\* Number of idle*.png / death*.png files per tier directory (assets).
IdleFrameCount == 1
DeathFrameCount == 2

\* ------------------------------------------------------- program constants

DISPLAY_WIDTH == 800
DISPLAY_HEIGHT == 500
Levels == 7
OriginalSize == 250
InitBaseHealth == 10
BaseHealthIncrease == 5
\* base_health_growth_rate = 0.2 and the initial growth factor 1.0, in tenths
GrowthRateTenths == 2
InitGrowthFactorTenths == 10
\* Player(loot=0, loot_bonus=0, base_damage=1, critical_damage=1, critical_rate=0)
BaseDamageOffset == 5
\* shrink_duration = grow_duration = 0.1, in hundredths
DurationHundredths == 10
\* the initial animation_speed 0.1, in hundredths
InitSpeedHundredths == 10
\* max_speed = 0.2, min_speed = 0.02 (hundredths), threshold_frames = 5
MaxSpeedHundredths == 20
MinSpeedHundredths == 2
ThresholdFrames == 5

Position == [x |-> DISPLAY_WIDTH \div 2 - 20, y |-> DISPLAY_HEIGHT \div 2 + 50]

\* ------------------------------------------------------------ arithmetic

\* Python's a // b for b > 0 (floor division; TLA+ \div already floors).
FloorDiv(a, b) == a \div b

\* scale ** level in millionths, scale in tenths, cut off below the sixth decimal
\* (exact up to level 6; the cut never changes int(base_price * scale ** level) for
\* the base prices 50 and 100 up to level 20).
RECURSIVE ScalePower(_, _)
ScalePower(scale, level) ==
    IF level = 0 THEN 1000000 ELSE (ScalePower(scale, level - 1) * scale) \div 10

\* Largest k with k * k <= n, searched upwards from k in steps of 16 and of 1.
RECURSIVE ISqrtFrom(_, _)
ISqrtFrom(n, k) ==
    IF (k + 1) * (k + 1) > n THEN k
    ELSE IF (k + 16) * (k + 16) <= n THEN ISqrtFrom(n, k + 16)
    ELSE ISqrtFrom(n, k + 1)
ISqrt(n) == ISqrtFrom(n, 0)

\* Python round() of num/den (den > 0): nearest integer, ties to even.
RoundHalfEven(num, den) ==
    LET q == num \div den
        r == num % den
    IN  IF 2 * r < den THEN q
        ELSE IF 2 * r > den THEN q + 1
        ELSE IF q % 2 = 0 THEN q ELSE q + 1

\* Tick counts k for which the double sum of k times 0.01 lies below k/100
\* (0.01 summed ten times is 0.09999999999999999), for k < 40.
ShortSums == {3, 9, 10, 11, 12, 13, 14, 15}

\* timer >= limit, the timer being k ticks of 0.01 and the limit num/den.
TimerReached(k, num, den) ==
    \/ k * den > 100 * num
    \/ k * den = 100 * num /\ k \notin ShortSums

\* ------------------------------------------------------------------ Perk

\* The keys of the save document's four perks double as the perks' names here.
PerkKeys == {"cr", "cd", "ld", "db"}

\* Perk.__init__: price_scale 1.2 is kept in tenths, bonus_scale is the int 1.
NewPerk(name, base_price, base_bonus) ==
    [name |-> name, base_price |-> base_price, base_bonus |-> base_bonus,
     price_scale |-> 12, bonus_scale |-> 1, level |-> 0]

CritRatePerk == NewPerk("CR", 100, 1)
CritDmgPerk == NewPerk("CD", 50, 5)
LootBonusPerk == NewPerk("LB", 100, 2)
DamageBonusPerk == NewPerk("DB", 50, 5)

InitPerks ==
    [k \in PerkKeys |->
        CASE k = "cr" -> CritRatePerk
          [] k = "cd" -> CritDmgPerk
          [] k = "ld" -> LootBonusPerk
          [] k = "db" -> DamageBonusPerk]

\* Variant of GetPrice: the scale is applied once more than the level says.
GetPriceNextLevel(perk) ==
    (perk.base_price * ScalePower(perk.price_scale, perk.level + 1)) \div 1000000

\* int(base_price * price_scale ** level)
GetPrice(perk) ==
    (perk.base_price * ScalePower(perk.price_scale, perk.level)) \div 1000000

\* Variant of get_bonus that leaves the level out.
GetBonusFlat(perk) == perk.base_bonus

\* int(base_bonus + level * bonus_scale)
GetBonus(perk) == perk.base_bonus + perk.level * perk.bonus_scale

\* Variant of upgrade that raises the level by two.
UpgradeTwice(perk) == [perk EXCEPT !.level = @ + 2]

\* Perk.upgrade
Upgrade(perk) == [perk EXCEPT !.level = @ + 1]

\* <Variant>.apply(player): the player after the bonus was added to the bound stat.
ApplyToPlayer(k, perk, p) ==
    CASE k = "cr" -> [p EXCEPT !.critical_rate = @ + GetBonus(perk)]
      [] k = "cd" -> [p EXCEPT !.critical_damage = @ + GetBonus(perk)]
      [] k = "ld" -> [p EXCEPT !.loot_bonus = @ + GetBonus(perk)]
      [] k = "db" -> [p EXCEPT !.base_damage = @ + GetBonus(perk)]

\* Variant of apply that upgrades first, so the bonus is the next level's.
ApplyUpgradeFirst(k, perk, p) ==
    [player |-> ApplyToPlayer(k, Upgrade(perk), p), perk |-> Upgrade(perk)]

\* <Variant>.apply(player): bonus granted, then upgrade().
Apply(k, perk, p) == [player |-> ApplyToPlayer(k, perk, p), perk |-> Upgrade(perk)]

\* ---------------------------------------------------------------- Player

NewPlayer(loot, loot_bonus, base_damage, critical_damage, critical_rate) ==
    [loot |-> loot, loot_bonus |-> loot_bonus,
     base_damage |-> base_damage + BaseDamageOffset,
     critical_damage |-> critical_damage, critical_rate |-> critical_rate]

InitPlayer == NewPlayer(0, 0, 1, 1, 0)

\* The values random.randint(0, 100) returns.
Rolls == 0 .. 100

\* Variant of calculate_damage that leaves out the 5 the constructor added to
\* base_damage.
CalculateDamageWeak(p, roll) ==
    IF roll < p.critical_rate
    THEN ((p.base_damage - BaseDamageOffset) * (100 + p.critical_damage)) \div 100
    ELSE p.base_damage - BaseDamageOffset

\* calculate_damage with the random integer drawn being roll.
CalculateDamage(p, roll) ==
    IF roll < p.critical_rate
    THEN (p.base_damage * (100 + p.critical_damage)) \div 100
    ELSE p.base_damage

\* The pairs <<reward, loot_bonus>> with reward < 400 and loot_bonus one of the
\* values below 377 that purchases give (0, 2, 5, 9, ..., 189, 209, ...) whose
\* double product reward * (1 + loot_bonus / 100) lies just below the exact
\* product, an integer: 1 + 189 / 100 is 2.8899999999999997.
ShortRewards == {<<100, 189>>, <<200, 189>>, <<300, 189>>}

\* calculate_reward: int(reward * (1 + loot_bonus / 100))
CalculateReward(p, reward) ==
    (reward * (100 + p.loot_bonus)) \div 100
    - (IF <<reward, p.loot_bonus>> \in ShortRewards THEN 1 ELSE 0)

\* ----------------------------------------------------------------- Enemy

\* A loaded image: its size and its pixel content (named by the file it came from).
LoadImage(tier, kind, i) ==
    [width |-> 32 + tier, height |-> 32, pixels |-> <<tier, kind, i>>]

LoadFrames(tier, kind) ==
    [i \in 1 .. (IF kind = "idle" THEN IdleFrameCount ELSE DeathFrameCount) |->
        LoadImage(tier, kind, i)]

load_idle_frames(enemy_count) == LoadFrames(enemy_count % Levels, "idle")
load_death_frames(enemy_count) == LoadFrames(enemy_count % Levels, "death")

Rect(x, y, w, h) == [x |-> x, y |-> y, w |-> w, h |-> h]

\* pygame.Rect.collidepoint: the right and bottom edges are outside.
CollidePoint(r, p) ==
    /\ r.x <= p.x /\ p.x < r.x + r.w
    /\ r.y <= p.y /\ p.y < r.y + r.h

\* Variant of AnimationSpeed that adds the adjustment to the maximum.
AnimationSpeedRising(num_frames) ==
    IF num_frames > ThresholdFrames
    THEN [num |-> MaxSpeedHundredths * num_frames
                    + (num_frames - ThresholdFrames) * (MaxSpeedHundredths - MinSpeedHundredths),
          den |-> 100 * num_frames]
    ELSE [num |-> MaxSpeedHundredths, den |-> 100]

\* animation speed set at the end of update, as the fraction num/den.
AnimationSpeed(num_frames) ==
    IF num_frames > ThresholdFrames
    THEN [num |-> MaxSpeedHundredths * num_frames
                    - (num_frames - ThresholdFrames) * (MaxSpeedHundredths - MinSpeedHundredths),
          den |-> 100 * num_frames]
    ELSE [num |-> MaxSpeedHundredths, den |-> 100]

InitEnemy ==
    [levels |-> Levels,
     enemy_count |-> 0,
     position |-> Position,
     death_frames |-> load_death_frames(0),
     idle_frames |-> load_idle_frames(0),
     current_animation |-> load_idle_frames(0),
     current_frame_index |-> 0,
     animation_speed |-> [num |-> InitSpeedHundredths, den |-> 100],
     animation_timer |-> 0,
     size |-> OriginalSize,
     rect |-> Rect(Position.x, Position.y, OriginalSize, OriginalSize),
     original_size |-> OriginalSize,
     shrink_timer |-> 0,
     grow_timer |-> 0,
     is_shrinking |-> FALSE,
     is_growing |-> FALSE,
     base_health |-> InitBaseHealth,
     health |-> InitBaseHealth,
     is_dead |-> FALSE,
     base_health_increase |-> BaseHealthIncrease,
     base_health_growth_rate |-> GrowthRateTenths,
     base_health_growth_factor |-> InitGrowthFactorTenths]

\* The values of random.uniform(0.8, 1.2) explored, in tenths.
LootDraws == {8, 10, 12}

\* Variant of CalculateLootCount: the root is truncated before the draw is applied.
CalculateLootCountRootFirst(e, u) == (ISqrt(e.base_health) * u) \div 10

\* calculate_loot_count: int(base_health * (1 / base_health ** 0.5) * u), u in tenths.
CalculateLootCount(e, u) == ISqrt((e.base_health * u * u) \div 100)

\* Variant of Hit: the loot is computed after the growth step of the death.
HitAfterGrowth(e, damage, u) ==
    LET e1 == [e EXCEPT !.health = @ - damage]
        grown == [e1 EXCEPT !.base_health =
                     @ + RoundHalfEven(e1.base_health_increase
                           * (e1.base_health_growth_factor + e1.base_health_growth_rate), 10)]
    IN  [enemy |-> e1,
         loot |-> IF e1.health <= 0 THEN CalculateLootCount(grown, u) ELSE 0]

\* hit: the enemy after the damage and the loot returned.
Hit(e, damage, u) ==
    LET e1 == [e EXCEPT !.health = @ - damage]
    IN  [enemy |-> e1,
         loot |-> IF e1.health <= 0 THEN CalculateLootCount(e1, u) ELSE 0]

PlayClickAnimation(e) ==
    IF e.current_animation = e.idle_frames
    THEN [e EXCEPT !.current_frame_index = 0, !.animation_timer = 0,
                   !.is_shrinking = TRUE, !.shrink_timer = 0]
    ELSE e

PlayDeathAnimation(e) ==
    IF e.current_animation # e.death_frames
    THEN [e EXCEPT !.current_animation = e.death_frames,
                   !.current_frame_index = 0, !.animation_timer = 0]
    ELSE e

PlayIdleAnimation(e) ==
    IF e.current_animation # e.idle_frames
    THEN [e EXCEPT !.current_animation = e.idle_frames,
                   !.current_frame_index = 0, !.animation_timer = 0,
                   !.is_shrinking = FALSE, !.is_growing = FALSE,
                   !.size = e.original_size]
    ELSE e

\* Variant of reset_health that leaves the dead flag set.
ResetHealthKeepsDead(e) ==
    LET e1 == PlayIdleAnimation(e)
    IN  [e1 EXCEPT !.health = e1.base_health]

ResetHealth(e) ==
    LET e1 == PlayIdleAnimation([e EXCEPT !.is_dead = FALSE])
    IN  [e1 EXCEPT !.health = e1.base_health]

\* Variant of IncreaseHealth that leaves the growth factor out.
IncreaseHealthFlat(e) ==
    [e EXCEPT !.base_health = @ + e.base_health_increase]

\* base_health += round(base_health_increase * base_health_growth_factor)
IncreaseHealth(e) ==
    [e EXCEPT !.base_health =
        @ + RoundHalfEven(e.base_health_increase * e.base_health_growth_factor, 10)]

UpdateFrames(e) ==
    [e EXCEPT !.idle_frames = load_idle_frames(e.enemy_count),
              !.death_frames = load_death_frames(e.enemy_count)]

\* int(original_size * (1 - shrink_timer / shrink_duration)) after k ticks, k = 1 .. 11,
\* as the doubles give it (the exact values would be 250 - 25 * k).
ShrinkSizes == <<225, 200, 175, 150, 125, 100, 74, 50, 25, 0, -24>>
\* int(original_size * (grow_timer / grow_duration)) after k ticks, k = 1 .. 11.
GrowSizes == <<24, 49, 75, 99, 125, 150, 175, 199, 224, 249, 274>>

ShrinkSize(e, k) ==
    IF k \in DOMAIN ShrinkSizes /\ e.original_size = OriginalSize
    THEN ShrinkSizes[k]
    ELSE (e.original_size * (DurationHundredths - k)) \div DurationHundredths

GrowSize(e, k) ==
    IF k \in DOMAIN GrowSizes /\ e.original_size = OriginalSize
    THEN GrowSizes[k]
    ELSE (e.original_size * k) \div DurationHundredths

\* update, lines 243-252: one tick of the shrink phase.
ShrinkStep(e) ==
    IF e.is_shrinking
    THEN LET k == e.shrink_timer + 1
             e1 == [e EXCEPT !.shrink_timer = k, !.size = ShrinkSize(e, k)]
         IN  IF TimerReached(k, DurationHundredths, 100)
             THEN [e1 EXCEPT !.is_shrinking = FALSE, !.is_growing = TRUE,
                             !.grow_timer = 0]
             ELSE e1
    ELSE e

\* update, lines 254-262: one tick of the grow phase.
GrowStep(e) ==
    IF e.is_growing
    THEN LET k == e.grow_timer + 1
             e1 == [e EXCEPT !.grow_timer = k, !.size = GrowSize(e, k)]
         IN  IF TimerReached(k, DurationHundredths, 100)
             THEN [e1 EXCEPT !.is_growing = FALSE, !.size = e.original_size]
             ELSE e1
    ELSE e

\* update, lines 264-269: the hit region follows position and size.
UpdateRect(e) ==
    [e EXCEPT !.rect = Rect(e.position.x - FloorDiv(e.size, 2),
                            e.position.y - FloorDiv(e.size, 2),
                            e.size, e.size)]

\* update, lines 271-286: frame advance, then the speed for the next tick.
AdvanceAnimation(e) ==
    LET k == e.animation_timer + 1
        e1 == IF TimerReached(k, e.animation_speed.num, e.animation_speed.den)
              THEN [e EXCEPT !.current_frame_index =
                                 (@ + 1) % Len(e.current_animation),
                             !.animation_timer = 0]
              ELSE [e EXCEPT !.animation_timer = k]
    IN  [e1 EXCEPT !.animation_speed = AnimationSpeed(Len(e1.current_animation))]

\* Variant of the death transition that forgets to set the dead flag.
DeathTransitionNoFlag(e) ==
    IF e.health <= 0 /\ ~e.is_dead
    THEN PlayDeathAnimation([e EXCEPT !.enemy_count = @ + 1])
    ELSE e

\* Variant of the death transition that leaves enemy_count as it is.
DeathTransitionNoCount(e) ==
    IF e.health <= 0 /\ ~e.is_dead
    THEN PlayDeathAnimation([e EXCEPT !.is_dead = TRUE])
    ELSE e

\* update, lines 229-232: the death transition.
DeathTransition(e) ==
    IF e.health <= 0 /\ ~e.is_dead
    THEN PlayDeathAnimation([e EXCEPT !.enemy_count = @ + 1, !.is_dead = TRUE])
    ELSE e

\* Variant of the resurrection that resets health before base_health is raised.
ResurrectResetFirst(e) ==
    LET e1 == UpdateFrames(e)
        e2 == [e1 EXCEPT !.base_health_growth_factor = @ + e1.base_health_growth_rate]
    IN  PlayIdleAnimation(IncreaseHealth(ResetHealth(e2)))

\* Variant of the resurrection that raises base_health before the growth factor.
ResurrectGrowAfter(e) ==
    LET e1 == IncreaseHealth(UpdateFrames(e))
        e2 == [e1 EXCEPT !.base_health_growth_factor = @ + e1.base_health_growth_rate]
    IN  PlayIdleAnimation(ResetHealth(e2))

\* update, lines 236-240: the death animation is over.
Resurrect(e) ==
    LET e1 == UpdateFrames(e)
        e2 == [e1 EXCEPT !.base_health_growth_factor = @ + e1.base_health_growth_rate]
    IN  PlayIdleAnimation(ResetHealth(IncreaseHealth(e2)))

\* Variant of Update without the branch taken on the death animation's last frame.
UpdateWithoutReset(e) ==
    AdvanceAnimation(UpdateRect(GrowStep(ShrinkStep(DeathTransition(e)))))

\* Enemy.update
Update(e) ==
    LET e1 == DeathTransition(e)
    IN  IF e1.is_dead /\ e1.current_frame_index = Len(e1.current_animation) - 1
        THEN Resurrect(e1)
        ELSE AdvanceAnimation(UpdateRect(GrowStep(ShrinkStep(e1))))

\* Whether update reaches its early return (the health reset) on this tick.
UpdateResets(e) ==
    LET e1 == DeathTransition(e)
    IN  e1.is_dead /\ e1.current_frame_index = Len(e1.current_animation) - 1

\* ---------------------------------------------------------- Player.click

\* Variant of the click test that leaves out the dead flag.
QualifiesIgnoringDead(e, pos) == CollidePoint(e.rect, pos)

\* Whether Player.click takes its branch.
Qualifies(e, pos) == CollidePoint(e.rect, pos) /\ ~e.is_dead

\* Player.click(mouse_pos, enemy, game) with the two random draws it may consume.
Click(p, e, pos, roll, u) ==
    IF Qualifies(e, pos)
    THEN LET e1 == PlayClickAnimation(e)
             damage == CalculateDamage(p, roll)
             h == Hit(e1, damage, u)
         IN  [player |-> [p EXCEPT !.loot = @ + CalculateReward(p, h.loot)],
              enemy |-> h.enemy]
    ELSE [player |-> p, enemy |-> e]

\* ------------------------------------------------------ save document

SerializeSurface(surface) ==
    [width |-> surface.width, height |-> surface.height, image |-> surface.pixels]

DeserializeSurface(d) ==
    [width |-> d.width, height |-> d.height, pixels |-> d.image]

SerializeFrames(frames) == [i \in DOMAIN frames |-> SerializeSurface(frames[i])]
DeserializeFrames(frames) == [i \in DOMAIN frames |-> DeserializeSurface(frames[i])]

\* Enemy.serialize: asdict covers the six dataclass fields; the frames are added.
SerializeEnemy(e) ==
    [base_health |-> e.base_health,
     health |-> e.health,
     base_health_increase |-> e.base_health_increase,
     base_health_growth_rate |-> e.base_health_growth_rate,
     base_health_growth_factor |-> e.base_health_growth_factor,
     enemy_count |-> e.enemy_count,
     idle_frames |-> SerializeFrames(e.idle_frames),
     death_frames |-> SerializeFrames(e.death_frames)]

\* Enemy.deserialize: every key of the data is set, then the animation is chosen.
DeserializeEnemy(e, d) ==
    LET e1 == [e EXCEPT !.base_health = d.base_health,
                        !.health = d.health,
                        !.base_health_increase = d.base_health_increase,
                        !.base_health_growth_rate = d.base_health_growth_rate,
                        !.base_health_growth_factor = d.base_health_growth_factor,
                        !.enemy_count = d.enemy_count,
                        !.idle_frames = DeserializeFrames(d.idle_frames),
                        !.death_frames = DeserializeFrames(d.death_frames)]
    IN  [e1 EXCEPT !.current_animation =
            IF e1.is_dead THEN e1.death_frames ELSE e1.idle_frames]

\* Player.serialize / Player.deserialize
SerializePlayer(p) ==
    [loot |-> p.loot, loot_bonus |-> p.loot_bonus, base_damage |-> p.base_damage,
     critical_damage |-> p.critical_damage, critical_rate |-> p.critical_rate]

DeserializePlayer(p, d) ==
    [p EXCEPT !.loot = d.loot, !.loot_bonus = d.loot_bonus,
              !.base_damage = d.base_damage,
              !.critical_damage = d.critical_damage,
              !.critical_rate = d.critical_rate]

\* Perk.serialize / Perk.deserialize
SerializePerk(perk) ==
    [name |-> perk.name, base_price |-> perk.base_price,
     base_bonus |-> perk.base_bonus, price_scale |-> perk.price_scale,
     bonus_scale |-> perk.bonus_scale, level |-> perk.level]

DeserializePerk(perk, d) ==
    [perk EXCEPT !.name = d.name, !.base_price = d.base_price,
                 !.base_bonus = d.base_bonus, !.price_scale = d.price_scale,
                 !.bonus_scale = d.bonus_scale, !.level = d.level]

\* The keys of the document, in the order load_game reads them.
DocKeys == <<"enemy", "player", "cr", "cd", "ld", "db">>
AllDocKeys == {DocKeys[i] : i \in DOMAIN DocKeys}

\* The data save_game dumps.
SaveData(p, e, ks) ==
    [player |-> SerializePlayer(p),
     enemy |-> SerializeEnemy(e),
     perks |-> [k \in PerkKeys |-> SerializePerk(ks[k])]]

\* ------------------------------------------------------------------ Game

VARIABLES
    mode,            \* the loop the process is in: "main_menu", "credits_menu",
                     \* "game", "pause_menu" (entered from a game frame), or the
                     \* process is over: "exited" (quit()), "crashed" (uncaught exception)
    playing,         \* Game.playing
    player,          \* Game.player
    enemy,           \* Game.enemy
    perks,           \* the four perks, by their document key
    shop_buttons,    \* Game.shop_buttons
    pause_selected,  \* PauseMenu.selected_button
    file,            \* save.json: <<>> when absent, else <<document>>
    hits_left,       \* exploration budget: calls of Enemy.hit still explored
    loads_left,      \* exploration budget: documents still loaded
    runs_left,       \* exploration budget: program starts still explored
    credited,        \* history: the loot of the current life's kill was paid out
    last,            \* history: what the last step did
    call             \* a method called on its own: name, arguments, result

game_vars == <<mode, playing, player, enemy, perks, shop_buttons, pause_selected,
               file, hits_left, loads_left, runs_left, credited, last>>

vars == <<mode, playing, player, enemy, perks, shop_buttons, pause_selected,
          file, hits_left, loads_left, runs_left, credited, last, call>>

session == <<player, enemy, perks>>

\* A document as json.load sees it: parseable or not, and if so which top-level
\* keys it holds and the data under them.
Document(text_ok, keys, data) == [text_ok |-> text_ok, keys |-> keys, data |-> data]

\* The file save_game leaves behind.
SavedFile(p, e, ks) == <<Document(TRUE, AllDocKeys, SaveData(p, e, ks))>>

\* A game played earlier: thirteen kills with every loot draw at 1.2 and no purchase,
\* then 27 clicks on the fourteenth enemy.
EarlierEnemy ==
    [InitEnemy EXCEPT !.base_health = 166, !.health = 4,
                      !.base_health_growth_factor = 36, !.enemy_count = 13,
                      !.idle_frames = load_idle_frames(13),
                      !.death_frames = load_death_frames(13),
                      !.current_animation = load_idle_frames(13)]
EarlierPlayer == [InitPlayer EXCEPT !.loot = 114]
EarlierData == SaveData(EarlierPlayer, EarlierEnemy, InitPerks)

\* A long game: 192 kills with every loot draw at 1.1 and no critical hit, the perks
\* bought as soon as affordable up to the levels CR 13, CD 18, LB 14, DB 17.
LateEnemy ==
    [InitEnemy EXCEPT !.base_health = 19498, !.health = 19498,
                      !.base_health_growth_factor = 394, !.enemy_count = 192,
                      !.idle_frames = load_idle_frames(192),
                      !.death_frames = load_death_frames(192),
                      !.current_animation = load_idle_frames(192)]
LatePlayer ==
    [loot |-> 1071, loot_bonus |-> 119, base_damage |-> 227,
     critical_damage |-> 244, critical_rate |-> 91]
LatePerks ==
    [k \in PerkKeys |->
        [InitPerks[k] EXCEPT !.level =
            CASE k = "cr" -> 13 [] k = "cd" -> 18 [] k = "ld" -> 14 [] k = "db" -> 17]]
LateData == SaveData(LatePlayer, LateEnemy, LatePerks)

\* What the first process may find on disk: nothing, the document of the earlier
\* game or of the long game, the earlier document with one key lost, or a file
\* that is not JSON.
NoFile == <<>>
EarlierFile == <<Document(TRUE, AllDocKeys, EarlierData)>>
LateFile == <<Document(TRUE, AllDocKeys, LateData)>>
DamagedFiles ==
    {<<Document(TRUE, AllDocKeys \ {"player"}, EarlierData)>>,
     <<Document(TRUE, AllDocKeys \ {"db"}, EarlierData)>>,
     <<Document(FALSE, {}, EarlierData)>>}

Scenario(f, h, l, r) == [file |-> f, hits |-> h, loads |-> l, runs |-> r]
Scenarios ==
    {Scenario(NoFile, NewGameHits, NewGameLoads, NewGameRuns),
     Scenario(EarlierFile, EarlierGameHits, EarlierGameLoads, EarlierGameRuns),
     Scenario(LateFile, LateGameHits, LateGameLoads, LateGameRuns)}
    \cup {Scenario(f, DamagedHits, DamagedLoads, DamagedRuns) : f \in DamagedFiles}

\* Pointer positions explored, on the 800 x 500 window.
Points ==
    {[x |-> 380, y |-> 300],   \* the enemy's centre; "Continue Game"; pause "Quit"
     [x |-> 260, y |-> 180],   \* near the corner of the full-size enemy
     [x |-> 600, y |-> 500],   \* inside the hit region of a new Enemy only
     [x |-> 10, y |-> 10],     \* on nothing
     [x |-> 650, y |-> 130],   \* BUY of the 1st perk (CR)
     [x |-> 650, y |-> 230],   \* BUY of the 2nd perk (CD)
     [x |-> 650, y |-> 330],   \* BUY of the 3rd perk (LB)
     [x |-> 650, y |-> 430],   \* BUY of the 4th perk (DB)
     [x |-> 400, y |-> 270],   \* "Start Game"; pause "Save Game"; the enemy
     [x |-> 400, y |-> 360],   \* "Credits"
     [x |-> 400, y |-> 400]}   \* main menu "Quit"

\* Batches of events one pygame.event.get() may return.
Events == {"QUIT", "ESCAPE", "DOWN", "UP"}
EventBatches ==
    {<<>>, <<"DOWN">>, <<"ESCAPE">>, <<"QUIT">>, <<"DOWN", "UP">>,
     <<"UP", "DOWN">>, <<"DOWN", "ESCAPE">>, <<"DOWN", "QUIT">>}

\* check_events: reset_keys, then the events in order; QUIT ends the process at once.
RECURSIVE ScanEvents(_, _)
ScanEvents(batch, f) ==
    IF batch = <<>> THEN f
    ELSE LET ev == Head(batch)
         IN  IF ev = "QUIT" THEN [f EXCEPT !.quit = TRUE]
             ELSE ScanEvents(Tail(batch),
                             CASE ev = "ESCAPE" -> [f EXCEPT !.ESCAPE = TRUE]
                               [] ev = "DOWN" -> [f EXCEPT !.CLICK = TRUE]
                               [] ev = "UP" -> [f EXCEPT !.CLICK = FALSE])

CheckEvents(batch) ==
    ScanEvents(batch, [quit |-> FALSE, ESCAPE |-> FALSE, CLICK |-> FALSE])

\* The outcomes of check_events over the batches explored.
Inputs == {CheckEvents(b) : b \in EventBatches}

\* Button(game, text, x, y): 270 x 40, at middle_width - 135.
Button(y) == Rect(DISPLAY_WIDTH \div 2 - 135, y, 270, 40)

MainMenuButtons ==
    <<[name |-> "start", rect |-> Button(DISPLAY_HEIGHT \div 2)],
      [name |-> "continue", rect |-> Button(DISPLAY_HEIGHT \div 2 + 45)],
      [name |-> "credits", rect |-> Button(DISPLAY_HEIGHT \div 2 + 90)],
      [name |-> "quit", rect |-> Button(DISPLAY_HEIGHT \div 2 + 135)]>>

PauseMenuButtons ==
    <<[name |-> "save", rect |-> Button(DISPLAY_HEIGHT \div 2 + 10)],
      [name |-> "quit", rect |-> Button(DISPLAY_HEIGHT \div 2 + 50)]>>

\* The button the loop of check_input leaves selected: the last one under the
\* pointer, or the one selected before when the pointer is on none.
Selected(buttons, pos, before) ==
    LET on == {i \in DOMAIN buttons : CollidePoint(buttons[i].rect, pos)}
    IN  IF on = {} THEN before
        ELSE buttons[CHOOSE i \in on : \A j \in on : j <= i].name

Hovering(buttons, pos) == \E i \in DOMAIN buttons : CollidePoint(buttons[i].rect, pos)

\* draw_shop_box: the four BUY buttons appended per frame, in get_perks() order.
PerkOrder == <<"cr", "cd", "ld", "db">>
DrawnButtons ==
    [i \in 1 .. 4 |->
        [x |-> (DISPLAY_WIDTH - 200 - 30) + 20 + 50,
         y |-> (50 + 7 + 100 * (i - 1)) + 65,
         width |-> 60, height |-> 20, perk |-> PerkOrder[i]]]

\* The list grows without limit in the program; entries beyond MaxShopFrames frames
\* repeat the first four and are not kept here.
DrawShopBox(buttons) ==
    IF Len(buttons) < 4 * MaxShopFrames THEN buttons \o DrawnButtons ELSE buttons

OnButton(b, pos) ==
    /\ b.x <= pos.x /\ pos.x <= b.x + b.width
    /\ b.y <= pos.y /\ pos.y <= b.y + b.height

\* check_button_events: the perk of the first button under the pointer, or "none".
ButtonHit(buttons, pos) ==
    LET on == {i \in DOMAIN buttons : OnButton(buttons[i], pos)}
    IN  IF on = {} THEN "none"
        ELSE buttons[CHOOSE i \in on : \A j \in on : i <= j].perk

\* Variant of the funds test with the comparison turned around.
CanBuyInverted(p, perk) == p.loot <= GetPrice(perk)

\* Variant of the purchase test that accepts every purchase.
CanBuyAlways(p, perk) == TRUE

\* Whether buy_perk goes through.
CanBuy(p, perk) == p.loot >= GetPrice(perk)

\* buy_perk(perk) for the perk under key k.
BuyPerk(p, ks, buttons, k) ==
    IF CanBuy(p, ks[k])
    THEN LET paid == [p EXCEPT !.loot = @ - GetPrice(ks[k])]
             a == Apply(k, ks[k], paid)
         IN  [player |-> a.player, perks |-> [ks EXCEPT ![k] = a.perk],
              shop_buttons |-> <<>>]
    ELSE [player |-> p, perks |-> ks, shop_buttons |-> buttons]

\* Variant of check_button_events without the break: every entry under the
\* pointer calls buy_perk, the loop running over the list it started with.
RECURSIVE BuyUnderEach(_, _, _, _)
BuyUnderEach(p, ks, rest, pos) ==
    IF rest = <<>> THEN [player |-> p, perks |-> ks]
    ELSE LET b == Head(rest)
             n == IF OnButton(b, pos) THEN BuyPerk(p, ks, <<>>, b.perk)
                  ELSE [player |-> p, perks |-> ks]
         IN  BuyUnderEach(n.player, n.perks, Tail(rest), pos)
CheckButtonEventsNoBreak(p, ks, buttons, pos) ==
    LET r == BuyUnderEach(p, ks, buttons, pos)
    IN  [player |-> r.player, perks |-> r.perks,
         shop_buttons |-> IF r.perks = ks THEN buttons ELSE <<>>]

\* check_button_events(mouse_pos)
CheckButtonEvents(p, ks, buttons, pos) ==
    LET k == ButtonHit(buttons, pos)
    IN  IF k = "none"
        THEN [player |-> p, perks |-> ks, shop_buttons |-> buttons]
        ELSE BuyPerk(p, ks, buttons, k)

\* Variant of check_saved_game without the except clause: open() raises.
CheckSavedGameUncaught(f) ==
    IF f = <<>> THEN "raises"
    ELSE IF ~f[1].text_ok THEN "raises"
    ELSE "present"

\* check_saved_game: "absent" (returns False), "raises" (json.load fails), "present".
CheckSavedGame(f) ==
    IF f = <<>> THEN "absent"
    ELSE IF ~f[1].text_ok THEN "raises"
    ELSE "present"

\* How many of the document's keys load_game reads before one is missing.
KeysRead(doc) ==
    LET missing == {i \in DOMAIN DocKeys : DocKeys[i] \notin doc.keys}
    IN  IF missing = {} THEN Len(DocKeys)
        ELSE (CHOOSE i \in missing : \A j \in missing : i <= j) - 1

\* load_game on a parseable document: the entities are deserialized in the order
\* enemy, player, cr, cd, ld, db until a key is missing (KeyError, not caught).
LoadGame(p, e, ks, doc) ==
    LET n == KeysRead(doc)
        read(key) == \E i \in 1 .. n : DocKeys[i] = key
    IN  [ok |-> n = Len(DocKeys),
         enemy |-> IF read("enemy") THEN DeserializeEnemy(e, doc.data.enemy) ELSE e,
         player |-> IF read("player") THEN DeserializePlayer(p, doc.data.player) ELSE p,
         perks |-> [k \in PerkKeys |->
                       IF read(k) THEN DeserializePerk(ks[k], doc.data.perks[k])
                       ELSE ks[k]]]

\* The values of random.randint(0, 100) explored.
RollsExplored == {0, 50, 100}

\* What a step did: the operation, and for a game frame whether a perk was bought,
\* whether Enemy.hit was called and whether that hit brought health to 0 or below.
Last(op, bought, hit, kill) ==
    [op |-> op, bought |-> bought, hit |-> hit, kill |-> kill]
Did(op) == Last(op, FALSE, FALSE, FALSE)

\* No method is called on its own while the program runs.
NoCall == [fn |-> "none", arg |-> <<>>, done |-> FALSE, out |-> 0]

\* Game.__init__ (the file on disk is whatever an earlier process left).
Init ==
    /\ mode = "main_menu"
    /\ playing = FALSE
    /\ player = InitPlayer
    /\ enemy = InitEnemy
    /\ perks = InitPerks
    /\ shop_buttons = <<>>
    /\ pause_selected = "save"
    /\ \E s \in Scenarios :
        /\ file = s.file
        /\ hits_left = s.hits
        /\ loads_left = s.loads
        /\ runs_left = s.runs - 1
    /\ credited = FALSE
    /\ last = Did("init")
    /\ call = NoCall

\* check_events on QUIT, in whichever loop: playing = False, save_game(), quit().
WindowClose ==
    /\ UNCHANGED call
    /\ mode \in {"main_menu", "credits_menu", "game", "pause_menu"}
    /\ \E in \in Inputs : in.quit
    /\ playing' = FALSE
    /\ file' = SavedFile(player, enemy, perks)
    /\ mode' = "exited"
    /\ last' = Did("close")
    /\ UNCHANGED <<player, enemy, perks, shop_buttons, pause_selected, hits_left, loads_left, runs_left, credited>>

\* MainMenu.check_input, "Start Game" clicked; run() then enters game_loop.
MainMenuStart ==
    /\ UNCHANGED call
    /\ mode = "main_menu"
    /\ \E in \in Inputs, pos \in Points :
        /\ ~in.quit /\ in.CLICK
        /\ Hovering(MainMenuButtons, pos)
        /\ Selected(MainMenuButtons, pos, "none") = "start"
    /\ playing' = TRUE
    /\ mode' = "game"
    /\ last' = Did("start")
    /\ UNCHANGED <<player, enemy, perks, shop_buttons, pause_selected, file, hits_left, loads_left, runs_left, credited>>

\* MainMenu.check_input, "Continue Game" clicked.
MainMenuContinue ==
    /\ UNCHANGED call
    /\ mode = "main_menu"
    /\ \E in \in Inputs, pos \in Points :
        /\ ~in.quit /\ in.CLICK
        /\ Hovering(MainMenuButtons, pos)
        /\ Selected(MainMenuButtons, pos, "none") = "continue"
    /\ LET found == CheckSavedGame(file)
       IN  CASE found = "absent" ->
                  /\ last' = Did("continue_absent")
                  /\ UNCHANGED <<mode, playing, player, enemy, perks, credited, loads_left>>
             [] found = "raises" ->
                  /\ mode' = "crashed"
                  /\ last' = Did("continue_raises")
                  /\ UNCHANGED <<playing, player, enemy, perks, credited, loads_left>>
             [] found = "present" ->
                  LET l == LoadGame(player, enemy, perks, file[1])
                  IN  /\ loads_left > 0
                      /\ loads_left' = loads_left - 1
                      /\ player' = l.player
                      /\ enemy' = l.enemy
                      /\ perks' = l.perks
                      /\ credited' = FALSE
                      /\ IF l.ok
                         THEN /\ playing' = TRUE
                              /\ mode' = "game"
                              /\ last' = Did("loaded")
                         ELSE /\ playing' = playing
                              /\ mode' = "crashed"
                              /\ last' = Did("load_raises")
    /\ UNCHANGED <<shop_buttons, pause_selected, file, hits_left, runs_left>>

\* MainMenu.check_input, "Credits" clicked.
MainMenuCredits ==
    /\ UNCHANGED call
    /\ mode = "main_menu"
    /\ \E in \in Inputs, pos \in Points :
        /\ ~in.quit /\ in.CLICK
        /\ Hovering(MainMenuButtons, pos)
        /\ Selected(MainMenuButtons, pos, "none") = "credits"
    /\ mode' = "credits_menu"
    /\ last' = Did("credits")
    /\ UNCHANGED <<playing, player, enemy, perks, shop_buttons, pause_selected,
                   file, hits_left, loads_left, runs_left, credited>>

\* MainMenu.check_input, "Quit" clicked: game.quit().
MainMenuQuit ==
    /\ UNCHANGED call
    /\ mode = "main_menu"
    /\ \E in \in Inputs, pos \in Points :
        /\ ~in.quit /\ in.CLICK
        /\ Hovering(MainMenuButtons, pos)
        /\ Selected(MainMenuButtons, pos, "none") = "quit"
    /\ mode' = "exited"
    /\ last' = Did("main_quit")
    /\ UNCHANGED <<playing, player, enemy, perks, shop_buttons, pause_selected,
                   file, hits_left, loads_left, runs_left, credited>>

\* CreditsMenu.check_input on ESC.
CreditsBack ==
    /\ UNCHANGED call
    /\ mode = "credits_menu"
    /\ \E in \in Inputs : ~in.quit /\ in.ESCAPE
    /\ mode' = "main_menu"
    /\ last' = Did("credits_back")
    /\ UNCHANGED <<playing, player, enemy, perks, shop_buttons, pause_selected,
                   file, hits_left, loads_left, runs_left, credited>>

\* What the history of the current life's kill becomes over one game frame.
CreditedAfter(before, killed, reset) ==
    IF reset THEN FALSE ELSE (before \/ killed)

\* game_loop, a frame without ESC and without a click.
GameTick ==
    /\ UNCHANGED call
    /\ mode = "game"
    /\ \E in \in Inputs : ~in.quit /\ ~in.ESCAPE /\ ~in.CLICK
    /\ enemy' = Update(enemy)
    /\ shop_buttons' = DrawShopBox(shop_buttons)
    /\ credited' = CreditedAfter(credited, FALSE, UpdateResets(enemy))
    /\ last' = Did("frame")
    /\ UNCHANGED <<mode, playing, player, perks, pause_selected, file, hits_left, loads_left, runs_left>>

\* game_loop, lines 125-128: whether the frame's click goes on to Player.click
\* after check_button_events; the call is unconditional.
ForwardsClick(buttons, pos) == TRUE

\* game_loop, a frame with CLICK set: check_button_events, Player.click, update.
GameClick ==
    /\ UNCHANGED call
    /\ mode = "game"
    /\ \E in \in Inputs : ~in.quit /\ ~in.ESCAPE /\ in.CLICK
    /\ \E pos \in Points :
        LET q == Qualifies(enemy, pos)
        IN  /\ q => hits_left > 0
            /\ \E roll \in (IF q THEN RollsExplored ELSE {0}),
                  u \in (IF q THEN LootDraws ELSE {10}) :
                LET b == CheckButtonEvents(player, perks, shop_buttons, pos)
                    c == IF ForwardsClick(shop_buttons, pos)
                         THEN Click(b.player, enemy, pos, roll, u)
                         ELSE [player |-> b.player, enemy |-> enemy]
                    k == ButtonHit(shop_buttons, pos)
                    killed == q /\ c.enemy.health <= 0
                IN  /\ player' = c.player
                    /\ perks' = b.perks
                    /\ enemy' = Update(c.enemy)
                    /\ shop_buttons' = DrawShopBox(b.shop_buttons)
                    /\ hits_left' = IF q THEN hits_left - 1 ELSE hits_left
                    /\ credited' = CreditedAfter(credited, killed, UpdateResets(c.enemy))
                    /\ last' = Last("frame", k # "none" /\ CanBuy(player, perks[k]),
                                    q, killed)
    /\ UNCHANGED <<mode, playing, pause_selected, file, loads_left, runs_left>>

\* game_loop, a frame with ESC: the pause menu's loop runs inside the frame.
\* Input bound: ESC is explored on the frames that start with animation_timer = 0
\* (the first frame, and each frame after the animation advanced).
GamePause ==
    /\ UNCHANGED call
    /\ mode = "game"
    /\ enemy.animation_timer = 0
    /\ \E in \in Inputs : ~in.quit /\ in.ESCAPE
    /\ mode' = "pause_menu"
    /\ last' = Did("pause")
    /\ UNCHANGED <<playing, player, enemy, perks, shop_buttons, pause_selected,
                   file, hits_left, loads_left, runs_left, credited>>

\* PauseMenu.check_input without CLICK: the pointer selects a button.
PauseHover ==
    /\ UNCHANGED call
    /\ mode = "pause_menu"
    /\ \E in \in Inputs, pos \in Points :
        /\ ~in.quit /\ ~in.CLICK
        /\ pause_selected' = Selected(PauseMenuButtons, pos, pause_selected)
    /\ pause_selected' # pause_selected
    /\ last' = Did("pause_hover")
    /\ UNCHANGED <<mode, playing, player, enemy, perks, shop_buttons, file, hits_left, loads_left, runs_left, credited>>

\* PauseMenu.check_input with CLICK and "Save Game" selected: save_game().
PauseSave ==
    /\ UNCHANGED call
    /\ mode = "pause_menu"
    /\ \E in \in Inputs, pos \in Points :
        /\ ~in.quit /\ in.CLICK
        /\ pause_selected' = Selected(PauseMenuButtons, pos, pause_selected)
    /\ pause_selected' = "save"
    /\ file' = SavedFile(player, enemy, perks)
    /\ last' = Did("save")
    /\ UNCHANGED <<mode, playing, player, enemy, perks, shop_buttons, hits_left, loads_left, runs_left, credited>>

\* PauseMenu.check_input with CLICK and "Quit" selected; the game frame that opened
\* the menu then runs to its end (no click: blit_screen reset the keys) and the
\* game loop is left for the main menu.
PauseQuit ==
    /\ UNCHANGED call
    /\ mode = "pause_menu"
    /\ \E in \in Inputs, pos \in Points :
        /\ ~in.quit /\ in.CLICK
        /\ pause_selected' = Selected(PauseMenuButtons, pos, pause_selected)
    /\ pause_selected' = "quit"
    /\ playing' = FALSE
    /\ mode' = "main_menu"
    /\ enemy' = Update(enemy)
    /\ shop_buttons' = DrawShopBox(shop_buttons)
    /\ credited' = CreditedAfter(credited, FALSE, UpdateResets(enemy))
    /\ last' = Did("pause_quit")
    /\ UNCHANGED <<player, perks, file, hits_left, loads_left, runs_left>>

\* The program is started again: Game.__init__; save.json is what was left.
Restart ==
    /\ UNCHANGED call
    /\ mode \in {"exited", "crashed"}
    /\ runs_left > 0
    /\ runs_left' = runs_left - 1
    /\ mode' = "main_menu"
    /\ playing' = FALSE
    /\ player' = InitPlayer
    /\ enemy' = InitEnemy
    /\ perks' = InitPerks
    /\ shop_buttons' = <<>>
    /\ pause_selected' = "save"
    /\ credited' = FALSE
    /\ last' = Did("init")
    /\ UNCHANGED <<file, hits_left, loads_left>>

Next ==
    \/ WindowClose
    \/ MainMenuStart
    \/ MainMenuContinue
    \/ MainMenuCredits
    \/ MainMenuQuit
    \/ CreditsBack
    \/ GameTick
    \/ GameClick
    \/ GamePause
    \/ PauseHover
    \/ PauseSave
    \/ PauseQuit
    \/ Restart

Spec == Init /\ [][Next]_vars

\* ------------------------------------------------- methods called on their own

\* Player(0, 0, base_damage, critical_damage, critical_rate): the constructor's
\* base_damage and critical_damage arguments and the critical rates explored.
UnitDamageArgs == {<<5, 50>>, <<1, 1>>, <<6, 6>>}
UnitRates == {0, 50, 100}
UnitPlayers ==
    {NewPlayer(0, 0, a[1], a[2], cr) : a \in UnitDamageArgs, cr \in UnitRates}

\* The four perks at the levels 0 .. MaxUnitLevel.
MaxUnitLevel == 15
UnitPerks ==
    {[InitPerks[k] EXCEPT !.level = l] : k \in PerkKeys, l \in 0 .. MaxUnitLevel}

\* Enemies with a given base_health, at full health, and the draws of
\* random.uniform(0.8, 1.2) explored, in tenths.
UnitHealths == {1, 10, 16, 23, 100, 10000}
UnitDraws == 8 .. 12
UnitEnemy(b) == [InitEnemy EXCEPT !.base_health = b, !.health = b]

\* update() called n times.
RECURSIVE Updated(_, _)
Updated(e, n) == IF n = 0 THEN e ELSE Updated(Update(e), n - 1)

\* A long game: 136 kills with every loot draw at 1.0 and no critical hit, the
\* LB perk bought 18 times and the DB perk 7 times; the 137th enemy is down to
\* 24 health, and LongFrames frames have passed since the last click.
LongFrames == 1
LongPlayer ==
    [loot |-> 111, loot_bonus |-> 189, base_damage |-> 62,
     critical_damage |-> 1, critical_rate |-> 0]
LongEnemy ==
    Updated(PlayClickAnimation(
                [InitEnemy EXCEPT !.base_health = 10006, !.health = 24,
                                  !.base_health_growth_factor = 282,
                                  !.enemy_count = 136,
                                  !.idle_frames = load_idle_frames(136),
                                  !.death_frames = load_death_frames(136),
                                  !.current_animation = load_idle_frames(136)]),
            LongFrames)

\* The players and enemies on which click is called: a new game after its
\* first frame, the earlier game and the long game.
UnitClickStates ==
    {[player |-> InitPlayer, enemy |-> Updated(InitEnemy, 1)],
     [player |-> EarlierPlayer, enemy |-> Updated(EarlierEnemy, 1)],
     [player |-> LongPlayer, enemy |-> LongEnemy]}

\* Enemies whose idle animation has 1 .. MaxUnitFrames frames, alive or hit to
\* 0 health, on which update is called.
MaxUnitFrames == 12
UnitFrames(n) == [i \in 1 .. n |-> LoadImage(0, "idle", i)]
UnitAnimated ==
    {[InitEnemy EXCEPT !.idle_frames = UnitFrames(n),
                       !.current_animation = UnitFrames(n),
                       !.health = h] :
        n \in 1 .. MaxUnitFrames, h \in {0, InitBaseHealth}}

\* click is called again and again at one point, each time with the same draws,
\* until the enemy's health is at 0 or below; calls counted up to here.
MaxKillClicks == 170

\* The players and enemies of UnitClickStates and of the late game, each enemy
\* at the start of its life.
UnitKillStates ==
    {[player |-> InitPlayer, enemy |-> InitEnemy],
     [player |-> EarlierPlayer,
      enemy |-> [EarlierEnemy EXCEPT !.health = EarlierEnemy.base_health]],
     [player |-> LongPlayer,
      enemy |-> [LongEnemy EXCEPT !.health = LongEnemy.base_health]],
     [player |-> LatePlayer, enemy |-> LateEnemy]}

\* ---- AdvancedLogger

\* The five logging methods and the numeric level of the record each one makes.
LevelNo == [debug |-> 10, info |-> 20, warning |-> 30, error |-> 40, critical |-> 50]
LogLevels == DOMAIN LevelNo

\* Logger.__init__: level DEBUG, last_log_message None (<<>> here, <<m>> once
\* the message m was passed).
NewLogger == [level |-> LevelNo["debug"], last_log_message |-> <<>>]

\* Variant of is_duplicated that keeps the first message as the comparison value.
IsDuplicatedKeepsFirst(lg, message) ==
    IF lg.last_log_message = <<message>>
    THEN [duplicated |-> TRUE, logger |-> lg]
    ELSE [duplicated |-> FALSE,
          logger |-> IF lg.last_log_message = <<>>
                     THEN [lg EXCEPT !.last_log_message = <<message>>]
                     ELSE lg]

\* Logger.is_duplicated(message): the answer and the logger after it.
IsDuplicated(lg, message) ==
    IF lg.last_log_message = <<message>>
    THEN [duplicated |-> TRUE, logger |-> lg]
    ELSE [duplicated |-> FALSE,
          logger |-> [lg EXCEPT !.last_log_message = <<message>>]]

\* One of debug/info/warning/error/critical under filter_duplicates: the wrapped
\* method runs unless the message is a duplicate, and logging.Logger hands the
\* record to the handlers when the level is enabled.
Log(lg, method, message) ==
    LET d == IsDuplicated(lg, message)
    IN  [logger |-> d.logger,
         emitted |-> ~d.duplicated /\ LevelNo[method] >= d.logger.level]

\* The messages passed to one logger and how many calls are made in a row.
LogMessages == {"A", "B"}
MaxLogCalls == 3
LogCalls ==
    UNION {[1 .. n -> [method : LogLevels, message : LogMessages]] :
              n \in 1 .. MaxLogCalls}

\* Batches of events handed to check_events on its own: those of the game, a
\* release alone, and presses that come twice in one batch.
UnitBatches ==
    EventBatches \cup {<<"UP">>, <<"DOWN", "DOWN">>, <<"DOWN", "UP", "DOWN">>}

NewCall(fn, arg) == [fn |-> fn, arg |-> arg, done |-> FALSE, out |-> 0]
UnitCalls ==
    {NewCall("calculate_damage", [player |-> p, roll |-> r]) :
        p \in UnitPlayers, r \in Rolls}
    \cup {NewCall(fn, [perk |-> perk]) :
        fn \in {"get_price", "get_bonus"}, perk \in UnitPerks}
    \cup {NewCall("hit", [enemy |-> UnitEnemy(b), damage |-> b - short, u |-> u]) :
        b \in UnitHealths, short \in {0, 1}, u \in UnitDraws}
    \cup {NewCall("click", [player |-> st.player, enemy |-> st.enemy,
                             pos |-> pos, roll |-> roll, u |-> u]) :
        st \in UnitClickStates, pos \in Points, roll \in RollsExplored,
        u \in UnitDraws}
    \cup {NewCall("update", [enemy |-> e]) : e \in UnitAnimated}
    \cup {NewCall("check_events", [batch |-> b]) : b \in UnitBatches}
    \cup {[NewCall("log", [calls |-> cs])
               EXCEPT !.out = [logger |-> NewLogger, emitted |-> <<>>]] :
        cs \in LogCalls}
    \cup {[NewCall("click_until_dead", [pos |-> Position, roll |-> roll, u |-> u])
               EXCEPT !.out = [player |-> st.player, enemy |-> st.enemy, clicks |-> 0]] :
        st \in UnitKillStates, roll \in RollsExplored, u \in LootDraws}

\* The objects are constructed as by Game.__init__; one method is then called.
UnitInit ==
    /\ mode = "main_menu"
    /\ playing = FALSE
    /\ player = InitPlayer
    /\ enemy = InitEnemy
    /\ perks = InitPerks
    /\ shop_buttons = <<>>
    /\ pause_selected = "save"
    /\ file = NoFile
    /\ hits_left = 0
    /\ loads_left = 0
    /\ runs_left = 0
    /\ credited = FALSE
    /\ last = Did("init")
    /\ call \in UnitCalls

\* Player.calculate_damage()
CallCalculateDamage ==
    /\ call.fn = "calculate_damage" /\ ~call.done
    /\ call' = [call EXCEPT !.done = TRUE,
                            !.out = CalculateDamage(call.arg.player, call.arg.roll)]
    /\ UNCHANGED game_vars

\* Perk.get_price()
CallGetPrice ==
    /\ call.fn = "get_price" /\ ~call.done
    /\ call' = [call EXCEPT !.done = TRUE, !.out = GetPrice(call.arg.perk)]
    /\ UNCHANGED game_vars

\* Perk.get_bonus()
CallGetBonus ==
    /\ call.fn = "get_bonus" /\ ~call.done
    /\ call' = [call EXCEPT !.done = TRUE, !.out = GetBonus(call.arg.perk)]
    /\ UNCHANGED game_vars

\* Enemy.hit(damage): the loot it returns.
CallHit ==
    /\ call.fn = "hit" /\ ~call.done
    /\ call' = [call EXCEPT !.done = TRUE,
                            !.out = Hit(call.arg.enemy, call.arg.damage, call.arg.u).loot]
    /\ UNCHANGED game_vars

\* Player.click(mouse_pos, enemy, game): the player and the enemy after it.
CallClick ==
    /\ call.fn = "click" /\ ~call.done
    /\ call' = [call EXCEPT !.done = TRUE,
                            !.out = Click(call.arg.player, call.arg.enemy,
                                          call.arg.pos, call.arg.roll, call.arg.u)]
    /\ UNCHANGED game_vars

\* Enemy.update(): the enemy after it.
CallUpdate ==
    /\ call.fn = "update" /\ ~call.done
    /\ call' = [call EXCEPT !.done = TRUE, !.out = Update(call.arg.enemy)]
    /\ UNCHANGED game_vars

\* Game.check_events(): the flags it leaves and whether it ended the process.
CallCheckEvents ==
    /\ call.fn = "check_events" /\ ~call.done
    /\ call' = [call EXCEPT !.done = TRUE, !.out = CheckEvents(call.arg.batch)]
    /\ UNCHANGED game_vars

\* Player.click called once more on an enemy that is not down yet: the player
\* and the enemy after it and the number of calls so far.
CallClickUntilDead ==
    /\ call.fn = "click_until_dead" /\ ~call.done
    /\ IF call.out.enemy.health > 0 /\ call.out.clicks < MaxKillClicks
       THEN LET c == Click(call.out.player, call.out.enemy,
                           call.arg.pos, call.arg.roll, call.arg.u)
            IN  call' = [call EXCEPT !.out = [player |-> c.player, enemy |-> c.enemy,
                                              clicks |-> call.out.clicks + 1]]
       ELSE call' = [call EXCEPT !.done = TRUE]
    /\ UNCHANGED game_vars

\* The next of the logging calls on one AdvancedLogger: the logger after it and,
\* call by call, whether a record was emitted.
CallLog ==
    /\ call.fn = "log" /\ ~call.done
    /\ LET i == Len(call.out.emitted) + 1
       IN  IF i <= Len(call.arg.calls)
           THEN LET r == Log(call.out.logger, call.arg.calls[i].method,
                             call.arg.calls[i].message)
                IN  call' = [call EXCEPT !.out = [logger |-> r.logger,
                                                  emitted |-> Append(call.out.emitted,
                                                                     r.emitted)]]
           ELSE call' = [call EXCEPT !.done = TRUE]
    /\ UNCHANGED game_vars

UnitNext ==
    \/ CallCalculateDamage
    \/ CallGetPrice
    \/ CallGetBonus
    \/ CallHit
    \/ CallClick
    \/ CallUpdate
    \/ CallCheckEvents
    \/ CallClickUntilDead
    \/ CallLog

\* The game with its frames going on: game_loop runs a frame after a frame while
\* self.playing, so a frame without input is taken again and again while enabled.
\* The program starts without a save file; the budgets of this exploration.
LiveHits == 2
LiveLoads == 1
LiveRuns == 2
LiveInit ==
    /\ mode = "main_menu"
    /\ playing = FALSE
    /\ player = InitPlayer
    /\ enemy = InitEnemy
    /\ perks = InitPerks
    /\ shop_buttons = <<>>
    /\ pause_selected = "save"
    /\ file = NoFile
    /\ hits_left = LiveHits
    /\ loads_left = LiveLoads
    /\ runs_left = LiveRuns - 1
    /\ credited = FALSE
    /\ last = Did("init")
    /\ call = NoCall

LiveSpec == LiveInit /\ [][Next]_vars /\ WF_vars(GameTick)

UnitSpec == UnitInit /\ [][UnitNext]_vars

\* ------------------------------------------------------------ properties

\* The player stat a perk is bound to.
StatOf(p, k) ==
    CASE k = "cr" -> p.critical_rate
      [] k = "cd" -> p.critical_damage
      [] k = "ld" -> p.loot_bonus
      [] k = "db" -> p.base_damage

\* Player p with loot and the stat bound to perk k replaced.
WithLootAndStat(p, k, loot, stat) ==
    [loot |-> loot,
     loot_bonus |-> IF k = "ld" THEN stat ELSE p.loot_bonus,
     base_damage |-> IF k = "db" THEN stat ELSE p.base_damage,
     critical_damage |-> IF k = "cd" THEN stat ELSE p.critical_damage,
     critical_rate |-> IF k = "cr" THEN stat ELSE p.critical_rate]

\* C1: a game frame in which buy_perk goes through takes the pre-purchase price
\* off player.loot, raises that perk's level by exactly 1 and adds the pre-purchase
\* bonus to the perk's bound stat, all in the one frame; the other perks and the
\* other player stats keep their values, and the enemy changes only by the
\* frame's own Enemy.update.
C1_SuccessfulPurchase ==
    [][(last'.op = "frame" /\ last'.bought) =>
        \E k \in PerkKeys :
            /\ player.loot >= GetPrice(perks[k])
            /\ player' = WithLootAndStat(player, k,
                                         player.loot - GetPrice(perks[k]),
                                         StatOf(player, k) + GetBonus(perks[k]))
            /\ perks' = [perks EXCEPT ![k].level = perks[k].level + 1]
            /\ enemy' = Update(enemy)]_vars

\* A purchase of a perk that already had a level was just made.
C1_Witness ==
    /\ last.op = "frame" /\ last.bought
    /\ \E k \in PerkKeys : perks[k].level = 2
    /\ player.loot < 114

\* C2: buy_perk for a perk whose price exceeds player.loot is a silent no-op:
\* the player, every perk and the shop's buttons stay as they were.
C2_RejectedPurchase ==
    \A k \in PerkKeys :
        player.loot < GetPrice(perks[k]) =>
            BuyPerk(player, perks, shop_buttons, k) =
                [player |-> player, perks |-> perks, shop_buttons |-> shop_buttons]

\* A game frame has run with the shop drawn, the player owns loot, and a BUY
\* button under the pointer belongs to a perk the loot does not pay for.
C2_Witness ==
    /\ mode = "game" /\ last.op = "frame" /\ ~last.bought
    /\ player.loot > 0
    /\ \E pos \in Points :
        /\ ButtonHit(shop_buttons, pos) # "none"
        /\ player.loot < GetPrice(perks[ButtonHit(shop_buttons, pos)])

\* C3: Player.click with a point outside enemy.rect, or while enemy.is_dead,
\* changes none of player.loot, player.base_damage and enemy.health.
C3_ClickWithoutEffect ==
    \A pos \in Points, roll \in RollsExplored, u \in LootDraws :
        (~CollidePoint(enemy.rect, pos) \/ enemy.is_dead) =>
            LET c == Click(player, enemy, pos, roll, u)
            IN  /\ c.player.loot = player.loot
                /\ c.player.base_damage = player.base_damage
                /\ c.enemy.health = enemy.health

\* The game loop is running with a dead enemy whose rectangle holds a click
\* point, and with another click point outside the rectangle.
C3_Witness ==
    /\ mode = "game" /\ last.op = "frame"
    /\ enemy.is_dead
    /\ \E pos \in Points : CollidePoint(enemy.rect, pos)
    /\ \E pos \in Points : ~CollidePoint(enemy.rect, pos)

\* C4: within a run of the game loop, once a click has brought health to 0 or
\* below, no later frame calls Enemy.hit, credits loot or changes enemy.health
\* until update resets health to base_health (loot only goes down, by a purchase).
C4_KillCreditedOnce ==
    [][(credited /\ last'.op = "frame") =>
        /\ ~last'.hit
        /\ player'.loot <= player.loot
        /\ (player'.loot = player.loot \/ last'.bought)
        /\ \/ enemy'.health = enemy.health
           \/ UpdateResets(enemy) /\ enemy'.health = enemy'.base_health]_vars

\* A frame went by on a dead, already credited enemy that was under the pointer.
C4_Witness ==
    /\ mode = "game" /\ credited /\ enemy.is_dead
    /\ last.op = "frame" /\ ~last.kill
    /\ player.loot > 0 /\ enemy.health <= 0
    /\ CollidePoint(enemy.rect, [x |-> 400, y |-> 360])

\* The modes in which save_game can run (window close, or the pause menu's button).
Running == {"main_menu", "credits_menu", "game", "pause_menu"}

\* C5: saving the session and loading the document into a newly constructed
\* session reproduces every field of the Player, of the Enemy (base_health,
\* health, growth parameters, enemy_count, is_dead, the idle and death frames in
\* number and order) and of the four Perks.
C5_RoundTrip ==
    mode \in Running =>
        LET l == LoadGame(InitPlayer, InitEnemy, InitPerks,
                          SavedFile(player, enemy, perks)[1])
        IN  /\ l.ok
            /\ l.player = player
            /\ l.perks = perks
            /\ l.enemy.base_health = enemy.base_health
            /\ l.enemy.health = enemy.health
            /\ l.enemy.base_health_increase = enemy.base_health_increase
            /\ l.enemy.base_health_growth_rate = enemy.base_health_growth_rate
            /\ l.enemy.base_health_growth_factor = enemy.base_health_growth_factor
            /\ l.enemy.enemy_count = enemy.enemy_count
            /\ l.enemy.idle_frames = enemy.idle_frames
            /\ l.enemy.death_frames = enemy.death_frames
            /\ l.enemy.is_dead = enemy.is_dead

\* C6: after a document that was saved while the enemy was dead (its health is 0
\* or below) has been loaded, the enemy is dead.
C6_DeadFlagPersisted ==
    (last.op = "loaded" /\ file[1].data.enemy.health <= 0) => enemy.is_dead

\* C7: a load that fails has changed no field of the in-memory Player, Enemy or
\* Perks.
C7_LoadAllOrNothing ==
    [][(mode = "main_menu" /\ mode' = "crashed") =>
        UNCHANGED <<player, enemy, perks>>]_vars

\* C8: choosing Continue when no save file exists is a no-op that is not fatal:
\* check_saved_game returns False, no field of Player, Enemy or Perks changes and
\* the main menu goes on with playing still False.
C8_ContinueWithoutFile ==
    [][(file = <<>> /\ last'.op \in {"continue_absent", "continue_raises",
                                      "loaded", "load_raises"}) =>
        /\ last'.op = "continue_absent"
        /\ CheckSavedGame(file) = "absent"
        /\ UNCHANGED <<player, enemy, perks>>
        /\ mode' = "main_menu"
        /\ ~playing /\ ~playing']_vars

\* Continue was just chosen in the main menu with no save file on disk.
C8_Witness ==
    /\ last.op = "continue_absent"
    /\ file = <<>>
    /\ mode = "main_menu" /\ ~playing
    /\ <<player, enemy, perks>> = <<InitPlayer, InitEnemy, InitPerks>>

\* C9: whenever the process has ended, the save document holds the Player, Enemy
\* and Perk state the process ended with.
C9_ExitSaves ==
    mode = "exited" => file = SavedFile(player, enemy, perks)

\* The sum over k = lo..hi of round(5 * (1 + 0.2*k)), factors in tenths; the
\* range is halved so that long sums stay shallow.
RECURSIVE GrowthBetween(_, _)
GrowthBetween(lo, hi) ==
    IF lo > hi THEN 0
    ELSE IF lo = hi THEN RoundHalfEven(5 * (10 + 2 * lo), 10)
    ELSE LET mid == (lo + hi) \div 2
         IN  GrowthBetween(lo, mid) + GrowthBetween(mid + 1, hi)

\* 10 + the sum over k = 1..n of round(5 * (1 + 0.2*k)).
HealthAfterDeaths(n) == 10 + GrowthBetween(1, n)

\* C10: after n completed deaths the growth factor is 1.0 + 0.2*n and base_health
\* is 10 + sum over k = 1..n of round(5 * (1 + 0.2*k)): 16 after the first death
\* and 23 after the second.
C10_HealthGrowth ==
    LET n == (enemy.base_health_growth_factor - 10) \div 2
    IN  /\ enemy.base_health_growth_factor = 10 + 2 * n
        /\ n >= 0
        /\ enemy.base_health = HealthAfterDeaths(n)
        /\ n = 1 => enemy.base_health = 16
        /\ n = 2 => enemy.base_health = 23

\* The second death of a new game has completed: factor 1.4, base_health 23.
C10_Witness ==
    /\ enemy.enemy_count = 2
    /\ enemy.base_health_growth_factor = 14
    /\ enemy.base_health = 23
    /\ enemy.health = 23 /\ ~enemy.is_dead

\* The steps that run Enemy.update: a game frame, or the frame the pause menu's
\* Quit lets run to its end.
UpdateOps == {"frame", "pause_quit"}

\* C11: enemy.health <= enemy.base_health in every reachable state, loads of saved
\* documents included, and health = base_health right after each health reset
\* (the update that raises the growth factor).
C11_HealthBelowBase ==
    /\ [](enemy.health <= enemy.base_health)
    /\ [][(last'.op \in UpdateOps
           /\ enemy'.base_health_growth_factor # enemy.base_health_growth_factor) =>
            enemy'.health = enemy'.base_health]_vars

\* The first enemy's health was just reset, to the raised base_health.
C11_Witness ==
    /\ last.op = "frame"
    /\ enemy.enemy_count = 1 /\ ~enemy.is_dead
    /\ enemy.base_health = 16 /\ enemy.health = 16
    /\ ~credited /\ player.loot > 0

\* C12: clicks, ticks and purchases keep is_dead true exactly while health <= 0:
\* from a state in which is_dead implies health <= 0, the state at the end of
\* the frame's update has is_dead true iff health <= 0.
C12_DeadIffNoHealth ==
    [][(last'.op \in UpdateOps /\ (enemy.is_dead => enemy.health <= 0)) =>
        (enemy'.is_dead <=> enemy'.health <= 0)]_vars

\* The update of the killing frame has just marked the enemy dead.
C12_Witness ==
    /\ last.op = "frame" /\ last.hit /\ last.kill
    /\ enemy.is_dead /\ enemy.health <= 0
    /\ enemy.current_animation = enemy.death_frames
    /\ enemy.current_frame_index = 0

\* C13: a click on a purchase button is resolved by buy_perk alone and is not
\* forwarded to Player.click.
C13_ButtonsFirst ==
    mode = "game" =>
        \A pos \in Points :
            ButtonHit(shop_buttons, pos) # "none" => ~ForwardsClick(shop_buttons, pos)

\* No purchase button shares a point with the enemy's hit region, so the call of
\* Player.click that follows a purchase finds the pointer outside enemy.rect.
ButtonsClearOfEnemy ==
    \A i \in DOMAIN shop_buttons :
        LET b == shop_buttons[i]
        IN  \/ enemy.rect.x + enemy.rect.w <= b.x
            \/ b.x + b.width < enemy.rect.x
            \/ enemy.rect.y + enemy.rect.h <= b.y
            \/ b.y + b.height < enemy.rect.y

\* C14: player.critical_rate is within [0, 100] in every reachable state,
\* whatever number of CritRatePerk purchases has been made.
C14_CritRateInRange ==
    player.critical_rate >= 0 /\ player.critical_rate <= 100

\* C15: calculate_damage draws an integer from 0 .. 99 and the hit is critical
\* iff the draw is below critical_rate; a critical hit returns
\* floor(base_damage * (1 + critical_damage / 100)), any other hit base_damage;
\* so a critical_rate of 100 makes every hit critical and 0 makes none.
C15_CriticalDraw ==
    (call.fn = "calculate_damage" /\ call.done) =>
        LET p == call.arg.player
            roll == call.arg.roll
            crit == (p.base_damage * (100 + p.critical_damage)) \div 100
        IN  /\ roll \in 0 .. 99
            /\ call.out = IF roll < p.critical_rate THEN crit ELSE p.base_damage
            /\ p.critical_rate = 100 => call.out = crit
            /\ p.critical_rate = 0 => call.out = p.base_damage

\* floor(base_price * 1.2 ^ level) for the levels 0 .. 16, computed exactly,
\* for the base prices 100 and 50.
ExactPrices100 ==
    <<100, 120, 144, 172, 207, 248, 298, 358, 429, 515, 619, 743, 891, 1069,
      1283, 1540, 1848>>
ExactPrices50 ==
    <<50, 60, 72, 86, 103, 124, 149, 179, 214, 257, 309, 371, 445, 534, 641,
      770, 924>>
ExactPrice(base_price, level) ==
    IF base_price = 100 THEN ExactPrices100[level + 1] ELSE ExactPrices50[level + 1]

\* C16: for each of the four perks get_price() is floor(base_price *
\* price_scale ^ level) and get_bonus() is floor(base_bonus + level *
\* bonus_scale); both are determined by the level, never decrease when the
\* level rises, and at level 0 are base_price and base_bonus.
C16_PriceAndBonus ==
    (call.fn \in {"get_price", "get_bonus"} /\ call.done) =>
        LET perk == call.arg.perk
            fresh == InitPerks[CHOOSE k \in PerkKeys : InitPerks[k].name = perk.name]
            lower == [perk EXCEPT !.level = @ - 1]
        IN  /\ perk = [fresh EXCEPT !.level = perk.level]
            /\ call.fn = "get_price" =>
                /\ call.out = ExactPrice(fresh.base_price, perk.level)
                /\ perk.level = 0 => call.out = fresh.base_price
                /\ perk.level > 0 => call.out >= GetPrice(lower)
            /\ call.fn = "get_bonus" =>
                /\ call.out = fresh.base_bonus + perk.level * fresh.bonus_scale
                /\ perk.level = 0 => call.out = fresh.base_bonus
                /\ perk.level > 0 => call.out >= GetBonus(lower)

C16_Witness ==
    /\ call.fn = "get_price" /\ call.done
    /\ call.arg.perk.name = "CR" /\ call.arg.perk.level = 13
    /\ call.out = 1069

Resurrections(e) ==
    (e.base_health_growth_factor - InitGrowthFactorTenths) \div GrowthRateTenths

\* On an update, enemy_count moves only by the death transition, which marks
\* the enemy dead and starts the death animation at frame 0.
DeathTransitionSteps ==
    [][last'.op \in UpdateOps =>
        /\ enemy'.enemy_count \in {enemy.enemy_count, enemy.enemy_count + 1}
        /\ enemy'.enemy_count = enemy.enemy_count + 1 =>
            /\ ~enemy.is_dead /\ enemy'.is_dead /\ enemy'.health <= 0
            /\ enemy'.current_animation = enemy'.death_frames
            /\ enemy'.current_frame_index = 0
        /\ enemy.is_dead => enemy'.enemy_count = enemy.enemy_count]_vars

\* C18: the death transition fires exactly once per kill: in each life of the
\* enemy in which health reaches 0 or less, one update increments enemy_count,
\* sets is_dead and starts the death animation at frame 0, and no later tick
\* of that life increments enemy_count again.
C18_DeathOncePerKill ==
    /\ [](enemy.enemy_count <= Resurrections(enemy) + 1)
    /\ DeathTransitionSteps

\* The death animation is on its last frame.
OnLastDeathFrame(e) ==
    /\ e.is_dead
    /\ e.current_animation = e.death_frames
    /\ e.current_frame_index = Len(e.death_frames) - 1

\* The update made on the death animation's last frame, and no other update,
\* raises the growth factor by the growth rate and base_health by
\* round(base_health_increase * growth factor), sets health to the new
\* base_health, clears is_dead and enters the idle animation at the original
\* size, neither shrinking nor growing.
ResurrectionSteps ==
    [][last'.op \in UpdateOps =>
        /\ OnLastDeathFrame(enemy) <=>
            enemy'.base_health_growth_factor # enemy.base_health_growth_factor
        /\ OnLastDeathFrame(enemy) =>
            /\ enemy'.base_health_growth_factor =
                enemy.base_health_growth_factor + enemy.base_health_growth_rate
            /\ enemy'.base_health = enemy.base_health
                + RoundHalfEven(enemy.base_health_increase
                                * enemy'.base_health_growth_factor, 10)
            /\ enemy'.health = enemy'.base_health
            /\ ~enemy'.is_dead
            /\ enemy'.current_animation = enemy'.idle_frames
            /\ enemy'.current_frame_index = 0
            /\ ~enemy'.is_shrinking /\ ~enemy'.is_growing
            /\ enemy'.size = enemy'.original_size]_vars

\* A frame with a click leaves a dead enemy as a frame without one does.
DeadIgnoresClicks ==
    [][(last'.op = "frame" /\ enemy.is_dead) => enemy' = Update(enemy)]_vars

\* C19: once the enemy is dead and frames keep coming, a tick is reached on
\* which the death animation's last frame is current; on that tick, once per
\* death, the growth factor and base_health grow, health is reset, is_dead is
\* cleared and the idle animation is entered at the original size; clicks
\* made during the death animation do not delay this.
C19_Resurrection ==
    /\ (mode = "game" /\ enemy.is_dead) ~> (mode # "game" \/ ~enemy.is_dead)
    /\ (mode = "game" /\ enemy.is_dead) ~> (mode # "game" \/ OnLastDeathFrame(enemy))
    /\ ResurrectionSteps
    /\ DeadIgnoresClicks

\* A frame brought the first enemy back to life.
C19_Witness ==
    /\ mode = "game" /\ last.op = "frame" /\ ~enemy.is_dead
    /\ enemy.enemy_count = 1
    /\ enemy.base_health_growth_factor = InitGrowthFactorTenths + GrowthRateTenths
    /\ enemy.health = enemy.base_health
    /\ enemy.current_animation = enemy.idle_frames
    /\ enemy.current_frame_index = 0 /\ enemy.animation_timer = 0

\* Player.click, whatever it draws, leaves base_health and the growth factor alone.
ClickKeepsBaseHealth ==
    mode = "game" =>
        \A pos \in Points, roll \in RollsExplored, u \in LootDraws :
            LET e == Click(player, enemy, pos, roll, u).enemy
            IN  /\ e.base_health = enemy.base_health
                /\ e.base_health_growth_factor = enemy.base_health_growth_factor

\* C20: under clicks, ticks and purchases base_health and the growth factor
\* change only on the tick on which the death animation completes; base_health
\* never decreases, and each increment is larger than the one before it.
C20_BaseHealthGrowth ==
    /\ []ClickKeepsBaseHealth
    /\ [][last'.op \in UpdateOps =>
            LET grown == enemy'.base_health - enemy.base_health
                before == RoundHalfEven(enemy.base_health_increase
                                        * enemy.base_health_growth_factor, 10)
            IN  /\ ~OnLastDeathFrame(enemy) =>
                    /\ enemy'.base_health = enemy.base_health
                    /\ enemy'.base_health_growth_factor = enemy.base_health_growth_factor
                /\ grown >= 0
                /\ grown # 0 =>
                    /\ OnLastDeathFrame(enemy)
                    /\ grown > before
                    /\ grown = enemy.base_health_increase + Resurrections(enemy')]_vars

\* A frame brought the second enemy back to life: base_health grew by 6, then by 7.
C20_Witness ==
    /\ mode = "game" /\ last.op = "frame" /\ ~enemy.is_dead
    /\ enemy.enemy_count = 2
    /\ enemy.base_health = InitBaseHealth + 6 + 7
    /\ enemy.current_frame_index = 0 /\ enemy.animation_timer = 0

\* C21: the loot of a kill is computed from the base_health of the life that
\* just ended: the frame of the killing hit leaves base_health and the growth
\* factor as they are, and the loot credited is that of base_health after as
\* many growth steps as lives were completed before.
C21_LootBeforeGrowth ==
    [][(last'.op = "frame" /\ last'.kill) =>
        LET n == Resurrections(enemy)
            gained == player'.loot - player.loot
        IN  /\ ~last'.bought
            /\ enemy'.base_health = enemy.base_health
            /\ enemy'.base_health_growth_factor = enemy.base_health_growth_factor
            /\ enemy.base_health = HealthAfterDeaths(n)
            /\ gained \in {CalculateReward(player,
                              ISqrt((HealthAfterDeaths(n) * u * u) \div 100)) :
                           u \in LootDraws}]_vars

\* The second enemy of a new game has just been killed: its loot came from
\* base_health 16, one growth step after 10.
C21_Witness ==
    /\ mode = "game" /\ last.op = "frame" /\ last.kill
    /\ enemy.is_dead /\ enemy.enemy_count = 2
    /\ Resurrections(enemy) = 1 /\ enemy.base_health = 16
    /\ player.loot >= 5

\* C22: under clicks, ticks and purchases a perk's level never decreases and
\* changes only by a successful purchase of that perk, by exactly 1; every
\* other frame leaves the level, base price, base bonus and scales of all four
\* perks unchanged.
C22_PerkLevels ==
    [][last'.op \in UpdateOps =>
        LET changed == {k \in PerkKeys : perks'[k] # perks[k]}
        IN  /\ \A k \in PerkKeys : perks'[k].level >= perks[k].level
            /\ ~last'.bought => changed = {}
            /\ last'.bought => Cardinality(changed) = 1
            /\ \A k \in changed :
                /\ perks'[k] = [perks[k] EXCEPT !.level = @ + 1]
                /\ player.loot >= GetPrice(perks[k])
                /\ player'.loot = player.loot - GetPrice(perks[k])]_vars

\* The purchase of the last frame raised one perk from level 0 to level 1.
C22_Witness ==
    /\ mode = "game" /\ last.op = "frame" /\ last.bought
    /\ Cardinality({k \in PerkKeys : perks[k].level = 1}) = 1
    /\ \A k \in PerkKeys : perks[k].level <= 1

\* C23: the click feedback never overlaps with death: the switch to the death
\* animation resets the shrink/grow sub-state, so in every state with is_dead
\* true both is_shrinking and is_growing are false.
C23_NoFeedbackWhileDead ==
    enemy.is_dead => (~enemy.is_shrinking /\ ~enemy.is_growing)

\* The enemy with its click feedback run to the end: the shrink and grow
\* phases of update are repeated until neither flag is set. The result differs
\* from e in is_shrinking, is_growing, the two timers, size and rect only.
RECURSIVE Settled(_)
Settled(e) ==
    IF e.is_shrinking \/ e.is_growing
    THEN Settled(UpdateRect(GrowStep(ShrinkStep(e))))
    ELSE e

\* C24: the click feedback is cosmetic: from two states that differ only in
\* is_shrinking, is_growing, the shrink and grow timers, size and rect, the
\* same click at the same point followed by the same tick gives the same
\* enemy.health, is_dead, enemy_count and player.loot.
C24_FeedbackCosmetic ==
    mode = "game" =>
        \A pos \in Points, roll \in RollsExplored, u \in LootDraws :
            LET a == Click(player, enemy, pos, roll, u)
                b == Click(player, Settled(enemy), pos, roll, u)
                ea == Update(a.enemy)
                eb == Update(b.enemy)
            IN  /\ ea.health = eb.health
                /\ ea.is_dead = eb.is_dead
                /\ ea.enemy_count = eb.enemy_count
                /\ a.player.loot = b.player.loot

\* C25: player.loot is a non-negative integer in every reachable state: a
\* frame without a purchase never decreases it, and a purchase deducts a price
\* that does not exceed the loot held.
C25_LootNonNegative ==
    /\ [](player.loot \in Nat)
    /\ [][last'.op \in UpdateOps =>
            /\ ~last'.bought => player'.loot >= player.loot
            /\ last'.bought =>
                \E k \in PerkKeys :
                    /\ GetPrice(perks[k]) <= player.loot
                    /\ player'.loot = player.loot - GetPrice(perks[k])]_vars

\* The late game's purchase of the CR perk for 1069 left 2 of 1071 loot.
C25_Witness ==
    /\ mode = "game" /\ last.op = "frame" /\ last.bought
    /\ perks["cr"].level = 14 /\ player.loot = 2

\* C26: a qualifying click (point inside the hit region, enemy not dead)
\* lowers enemy.health by exactly the damage computed for the click; if health
\* stays above 0 player.loot is unchanged, and if health becomes 0 or less
\* player.loot rises by exactly floor(drop * (1 + loot_bonus / 100)), drop
\* being the loot returned by hit; no other stat of the player changes.
C26_QualifyingClick ==
    (call.fn = "click" /\ call.done /\ Qualifies(call.arg.enemy, call.arg.pos)) =>
        LET p == call.arg.player
            e == call.arg.enemy
            p2 == call.out.player
            e2 == call.out.enemy
            drop == CalculateLootCount(e, call.arg.u)
        IN  /\ e2.health = e.health - CalculateDamage(p, call.arg.roll)
            /\ e2.health > 0 => p2.loot = p.loot
            /\ e2.health <= 0 =>
                p2.loot = p.loot + (drop * (100 + p.loot_bonus)) \div 100
            /\ [p2 EXCEPT !.loot = p.loot] = p

\* 0.2 for n <= 5 and 0.2 - ((n - 5) / n) * (0.2 - 0.02) for n > 5, as the
\* fraction num/den.
StatedInterval(n) ==
    IF n <= 5 THEN [num |-> 20, den |-> 100]
    ELSE [num |-> 20 * n - (n - 5) * (20 - 2), den |-> 100 * n]

\* C27: the tick interval that update sets depends only on the number n of
\* frames of the current animation: it is 0.2 for n <= 5 and
\* 0.2 - ((n - 5) / n) * (0.2 - 0.02) for n > 5; it does not increase with n
\* and lies within [0.02, 0.2].
C27_TickInterval ==
    (call.fn = "update" /\ call.done) =>
        LET n == Len(call.out.current_animation)
            s == call.out.animation_speed
            stated == StatedInterval(n)
            shorter == StatedInterval(n - 1)
        IN  /\ s.den > 0
            /\ s.num * stated.den = stated.num * s.den
            /\ n <= 5 => 100 * s.num = 20 * s.den
            /\ 2 * s.den <= 100 * s.num
            /\ 100 * s.num <= 20 * s.den
            /\ n > 1 => s.num * shorter.den <= shorter.num * s.den

\* update was called on an enemy whose animation has ten frames: the interval
\* is 0.2 - (5 / 10) * 0.18 = 0.11.
C27_Witness ==
    /\ call.fn = "update" /\ call.done
    /\ Len(call.out.current_animation) = 10
    /\ 100 * call.out.animation_speed.num = 11 * call.out.animation_speed.den

\* No document can have been loaded yet: save.json has never existed.
NeverLoaded == file = NoFile

\* C28: kills and difficulty stay in lockstep: in every state reached from a
\* new game by clicks, ticks and purchases, enemy_count is the number of growth
\* steps applied so far, plus 1 while is_dead is true; that is, the growth
\* factor is 1.0 + 0.2 * (enemy_count - [is_dead]).
C28_KillsInLockstep ==
    NeverLoaded =>
        LET dead == IF enemy.is_dead THEN 1 ELSE 0
        IN  /\ enemy.enemy_count = Resurrections(enemy) + dead
            /\ enemy.base_health_growth_factor =
                InitGrowthFactorTenths + GrowthRateTenths * (enemy.enemy_count - dead)

\* The second enemy of a game that was never saved is dying.
C28_Witness ==
    /\ NeverLoaded /\ mode = "game"
    /\ enemy.is_dead /\ enemy.enemy_count = 2
    /\ enemy.base_health_growth_factor = 12

\* The sum of base_bonus + k over the levels k = 0 .. level - 1.
RECURSIVE BonusSum(_, _)
BonusSum(base_bonus, level) ==
    IF level = 0 THEN 0
    ELSE BonusSum(base_bonus, level - 1) + base_bonus + (level - 1)

\* C29: the player's stats stay consistent with the perk levels: after clicks,
\* ticks, purchases and loads that went through, critical_rate is the sum of
\* 1 + k, critical_damage 1 + the sum of 5 + k, loot_bonus the sum of 2 + k and
\* base_damage 6 + the sum of 5 + k, k ranging below the level of the CR, CD,
\* LB and DB perk.
C29_StatsMatchLevels ==
    mode # "crashed" =>
        /\ player.critical_rate = BonusSum(1, perks["cr"].level)
        /\ player.critical_damage = 1 + BonusSum(5, perks["cd"].level)
        /\ player.loot_bonus = BonusSum(2, perks["ld"].level)
        /\ player.base_damage = 6 + BonusSum(5, perks["db"].level)

\* The late game was loaded and the CR perk bought for the 14th time.
C29_Witness ==
    /\ mode = "game" /\ last.op = "frame" /\ last.bought
    /\ perks["cr"].level = 14 /\ player.critical_rate = 105
    /\ perks["db"].level = 17 /\ player.base_damage = 227

\* C30: the list of shop buttons stays bounded: after every frame of the game
\* loop shop_buttons holds at most four entries, one per perk, however many
\* frames have passed without a purchase.
C30_ShopButtonsBounded == Len(shop_buttons) <= 4

\* The process has neither started nor loaded a game: it is in the main menu it
\* was constructed into, with the state of Game.__init__.
FreshSession ==
    /\ mode = "main_menu" /\ last.op = "init"
    /\ <<player, enemy, perks>> = <<InitPlayer, InitEnemy, InitPerks>>

\* C31: an existing save document is never replaced by the state of a session in
\* which no game was started or loaded: closing the window while in the main menu,
\* before Start Game or Continue was chosen, leaves the document unchanged.
C31_CloseKeepsDocument ==
    [][(FreshSession /\ file # NoFile /\ last'.op = "close") => file' = file]_vars

\* The levels of the four perks added up.
LevelSum(ks) ==
    ks["cr"].level + ks["cd"].level + ks["ld"].level + ks["db"].level

\* C32: one frame with a click performs at most one perk purchase and at most one
\* enemy hit, even when shop_buttons holds several entries that cover the click
\* point (a press is reported with CLICK set only by a batch that holds a
\* button-down event); a frame without one, as while the button is held down,
\* performs neither.
C32_OncePerFrame ==
    /\ [](\A b \in EventBatches :
            CheckEvents(b).CLICK => \E i \in DOMAIN b : b[i] = "DOWN")
    /\ [][(mode = "game" /\ last'.op = "frame") =>
            /\ LevelSum(perks') - LevelSum(perks) \in {0, 1}
            /\ \/ enemy'.health = enemy.health
               \/ enemy.is_dead /\ ~enemy'.is_dead /\ enemy'.health = enemy'.base_health
               \/ \E roll \in Rolls :
                    enemy'.health = enemy.health - CalculateDamage(player', roll)]_vars
    /\ [][GameTick =>
            /\ perks' = perks /\ player' = player
            /\ ~last'.bought /\ ~last'.hit
            /\ enemy'.health >= enemy.health]_vars

\* The earlier game was loaded and at least two frames drew the shop, so that two
\* entries cover each BUY button; a click on BUY of the CD perk then bought it
\* once, for 50 of the 114 loot, although 64 would have paid for the next level.
C32_Witness ==
    /\ mode = "game" /\ last.op = "frame" /\ last.bought
    /\ enemy.enemy_count = 13 /\ enemy.animation_timer = 3
    /\ perks["cd"].level = 1 /\ player.loot = 64
    /\ GetPrice(perks["cd"]) <= player.loot
    /\ \A k \in PerkKeys \ {"cd"} : perks[k].level = 0

\* How many left-button presses a batch of events holds.
Presses(batch) == Cardinality({i \in DOMAIN batch : batch[i] = "DOWN"})

\* C33: every left mouse-button press delivered to the game loop is resolved as a
\* click in the frame in which the event is read: after check_events has read a
\* batch that holds a press (and neither ends the process nor opens the pause
\* menu), CLICK is set, also when the release or a second press arrives in the
\* same batch.
C33_NoPressDropped ==
    (call.fn = "check_events" /\ call.done
        /\ Presses(call.arg.batch) > 0
        /\ ~call.out.quit /\ ~call.out.ESCAPE)
    => call.out.CLICK

\* a / b rounded up, for positive b.
CeilDiv(a, b) == (a + b - 1) \div b

\* C34: every qualifying click on a live enemy strictly decreases enemy.health, by
\* at least player.base_damage, which is at least 6; so a live enemy with
\* base_health B is down after at most ceil(B / base_damage) qualifying clicks.
C34_ClicksKill ==
    /\ (call.fn = "click" /\ call.done /\ Qualifies(call.arg.enemy, call.arg.pos)) =>
        /\ call.arg.player.base_damage >= 6
        /\ call.out.enemy.health <= call.arg.enemy.health - call.arg.player.base_damage
        /\ call.out.enemy.health < call.arg.enemy.health
    /\ call.fn = "click_until_dead" =>
        LET most == CeilDiv(call.out.enemy.base_health, call.out.player.base_damage)
        IN  /\ call.out.player.base_damage >= 6
            /\ Qualifies(call.out.enemy, call.arg.pos)
            /\ call.out.enemy.health > 0 => call.out.clicks < most
            /\ call.out.enemy.health <= 0 => call.out.clicks \in 1 .. most

\* The earlier game's enemy, base_health 166, went down at the 28th click of 6
\* damage: 28 is ceil(166 / 6).
C34_Witness ==
    /\ call.fn = "click_until_dead" /\ call.done
    /\ call.out.enemy.base_health = 166 /\ call.out.player.base_damage = 6
    /\ call.out.enemy.health <= 0 /\ call.out.clicks = 28

\* C35: choosing Start Game in the main menu always begins from the initial state
\* (loot 0, base_damage 6, all perk levels 0, base_health 10, health 10,
\* enemy_count 0), also when a previous game of the same process was left through
\* the pause menu's Quit button.
C35_StartIsInitial ==
    last.op = "start" =>
        /\ player.loot = 0 /\ player.base_damage = 6
        /\ \A k \in PerkKeys : perks[k].level = 0
        /\ enemy.base_health = 10 /\ enemy.health = 10
        /\ enemy.enemy_count = 0

\* C36: consecutive-duplicate suppression in AdvancedLogger: a message passed to
\* debug/info/warning/error/critical is emitted iff it differs from the message
\* most recently passed to the same logger, whatever the levels of the two calls
\* (the first message is always emitted), and the message passed last is the
\* comparison value; so A, B, A emits all three and A, A, B emits A and B.
C36_DuplicateSuppression ==
    call.fn = "log" =>
        LET calls == call.arg.calls
            n == Len(call.out.emitted)
        IN  /\ \A i \in 1 .. n :
                call.out.emitted[i] <=>
                    (i = 1 \/ calls[i].message # calls[i - 1].message)
            /\ n > 0 => call.out.logger.last_log_message = <<calls[n].message>>
            /\ (n = 3 /\ calls[1].message = "A" /\ calls[2].message = "B"
                      /\ calls[3].message = "A")
                => call.out.emitted = <<TRUE, TRUE, TRUE>>

\* debug("A"), error("A"), info("B") were called on a new logger: the second call
\* emitted nothing.
C36_Witness ==
    /\ call.fn = "log" /\ call.done
    /\ call.arg.calls = <<[method |-> "debug", message |-> "A"],
                          [method |-> "error", message |-> "A"],
                          [method |-> "info", message |-> "B"]>>
    /\ call.out.emitted = <<TRUE, FALSE, TRUE>>
    /\ call.out.logger.last_log_message = <<"B">>

====
